---- MODULE Spec2Model ----
(***************************************************************************)
(* pg-reflinker: a kopf controller that provisions reflink snapshot        *)
(* volumes of CNPG clusters.  The model covers the handlers of             *)
(* src/src/pg_reflinker/main.py and the orchestrator objects they create,  *)
(* read, replace and delete: claims, SnapshotVolumes (PersistentVolumes),  *)
(* BackupJobs and cleanup jobs.                                            *)
(*                                                                         *)
(* Object names are sequences of their dash-separated segments, so that    *)
(* name.replace('pg-reflinker-', '') and name.split('-')[-1] are computed  *)
(* on the name as the code computes them.                                  *)
(***************************************************************************)
EXTENDS Naturals, Sequences, FiniteSets, TLC

VARIABLES
    claim,      \* claim coordinates -> the claim object (uid, handler progress)
    issued,     \* how many UIDs the API server has handed out
    pv,         \* guid -> the PersistentVolume named pvc-{guid}
    job,        \* guid -> the Job named pg-reflinker-{guid}
    cleanup,    \* guid -> the Job named pg-reflinker-cleanup-{guid}
    created,    \* guid -> how many volumes / backup jobs were ever created
    world,      \* what the cluster holds besides: storage class, source, pods
    restarts,   \* how many times the controller was stopped and started again
    hostDir,    \* guid -> the directory HOSTPATH_PREFIX/{guid} exists on the source node
    request,    \* a claim-created event followed on its own: what the cluster
                \* answers to the handler's reads, and how the handler ended
    tls         \* a call of get_db_connection: its position, the temporary
                \* files on disk and the paths it holds

vars == <<claim, issued, pv, job, cleanup, created, world, restarts, hostDir,
          request, tls>>

-----------------------------------------------------------------------------
(* Bounds of the model *)

\* total number of SnapshotVolume creations in one behaviour
MaxPvCreates == 2
\* number of guids for which a SnapshotVolume is created in one behaviour
MaxGuids == 1
\* pod failures a BackupJob can count before it stops retrying
MaxPodFailures == 2
\* times the controller is stopped and started again in one behaviour
MaxRestarts == 1
\* pod failures a cleanup job can count before it stops retrying
MaxCleanupFailures == 1

-----------------------------------------------------------------------------
(* Values *)

NoUid == <<>>
NoNode == ""
NoNs == ""
NoSC == ""
NoPolicy == ""

\* claim coordinates <<namespace, name>>
ClaimKeys == {<<"app", "clone">>}
\* UIDs the API server hands out; a UID is a sequence of dash-separated segments
UidSeq == << <<"a1", "ff">>, <<"b2", "ff">> >>
UidPool == {UidSeq[i] : i \in 1..Len(UidSeq)}
\* values uuid.uuid4() can return
RandPool == {<<"c3", "ff">>}
Guids == UidPool \cup RandPool
Nodes == {"n1", "n2"}
StorageClassName == "pgrl"

HOSTPATH_PREFIX == <<"var", "lib", "pg-reflinker">>

-----------------------------------------------------------------------------
(* Object names *)

\* f'pvc-{guid}'
PvName(guid) == <<"pvc">> \o guid

\* f'pg-reflinker-{guid}'
JobName(guid) == <<"pg", "reflinker">> \o guid

\* a cleanup job that takes the name of the BackupJob
CleanupJobName_as_backup(guid) == <<"pg", "reflinker">> \o guid

\* f'pg-reflinker-cleanup-{guid}'
CleanupJobName(guid) == <<"pg", "reflinker", "cleanup">> \o guid

\* name.replace('pg-reflinker-', ''): every occurrence of the segments
\* pg, reflinker followed by a dash is removed (segments of UIDs are
\* hexadecimal, so an occurrence starts at a segment boundary)
RECURSIVE StripJobPrefix(_)
StripJobPrefix(name) ==
    IF Len(name) = 0 THEN <<>>
    ELSE IF Len(name) >= 3 /\ name[1] = "pg" /\ name[2] = "reflinker"
         THEN StripJobPrefix(SubSeq(name, 3, Len(name)))
         ELSE <<Head(name)>> \o StripJobPrefix(Tail(name))

\* name.split('-')[-1]
LastSegment(name) == <<name[Len(name)]>>

\* os.path.join(HOSTPATH_PREFIX, guid)
PvPath(guid) == Append(HOSTPATH_PREFIX, guid)

-----------------------------------------------------------------------------
(* The Cluster Introspector part of handle_pvc_create *)

PROVISIONER == "k8s.insiderscore.com/pg-reflinker"
CNPG_API == "postgresql.cnpg.io/v1"

OwnerCnpg(n) == [kind |-> "Cluster", api |-> CNPG_API, name |-> n]
OwnerSts == [kind |-> "StatefulSet", api |-> "apps/v1", name |-> "sts"]
OwnerCapi == [kind |-> "Cluster", api |-> "cluster.x-k8s.io/v1beta1", name |-> "capi"]

\* what the handler reads from the orchestrator and the environment
ResolveInputs ==
    [ scName     : {NoSC, StorageClassName},
      scReadable : BOOLEAN,
      provisioner: {PROVISIONER, "kubernetes.io/no-provisioner"},
      scReclaim  : {NoPolicy, "Retain", "Delete"},
      dsKind     : {"", "VolumeSnapshot", "PersistentVolumeClaim"},
      dsNs       : {NoNs, "shared"},
      path       : {<<>>, <<"shared", "", "other">>},
      holders    : {{}, {"shared", "other"}, {"app", "other"}},
      phase      : {"Bound", "Pending"},
      owners     : {<<>>, <<OwnerSts>>, <<OwnerCapi, OwnerCnpg("db-1")>>,
                    <<OwnerCnpg("db-1"), OwnerCnpg("db-2")>>},
      clusterOk  : BOOLEAN,
      pods       : {<<>>, <<"n1", "n2">>, <<NoNode, "n1">>},
      secretsOk  : BOOLEAN ]

\* candidate_namespaces: the claim's namespace, then the non-blank entries of
\* NAMESPACE_PATH in their order
CandidateNamespaces(namespace, path) ==
    <<namespace>> \o SelectSeq(path, LAMBDA e : e # "")

\* a search that keeps the last candidate holding the source claim
FirstHolder_last(cands, holders) ==
    LET hit == {i \in 1..Len(cands) : cands[i] \in holders}
    IN  IF hit = {} THEN NoNs
        ELSE cands[CHOOSE i \in hit : \A j \in hit : i >= j]

\* the loop of lines 146-153: the first candidate holding the source claim
FirstHolder(cands, holders) ==
    LET hit == {i \in 1..Len(cands) : cands[i] \in holders}
    IN  IF hit = {} THEN NoNs
        ELSE cands[CHOOSE i \in hit : \A j \in hit : i <= j]

\* the loop of lines 164-167: the first owner that is a CNPG Cluster
FirstClusterOwner(owners) ==
    LET hit == {i \in 1..Len(owners) :
                   owners[i].kind = "Cluster" /\ owners[i].api = CNPG_API}
    IN  IF hit = {} THEN ""
        ELSE owners[CHOOSE i \in hit : \A j \in hit : i <= j].name

\* the delay of the TemporaryErrors of lines 159 and 197
REQUEUE_DELAY == 30

\* a failure that asks for no delay
Unresolved_no_delay(kind, delay) ==
    [kind |-> kind, delay |-> 0, reclaim |-> NoPolicy, scName |-> NoSC,
     srcNs |-> NoNs, cluster |-> "", node |-> NoNode]

\* how a run that ends before the pod is read leaves handle_pvc_create
Unresolved(kind, delay) ==
    [kind |-> kind, delay |-> delay, reclaim |-> NoPolicy, scName |-> NoSC,
     srcNs |-> NoNs, cluster |-> "", node |-> NoNode]

\* lines 107-200 of handle_pvc_create
Resolve(namespace, in) ==
    LET srcNs == IF in.dsNs # NoNs
                 THEN (IF in.dsNs \in in.holders THEN in.dsNs ELSE NoNs)
                 ELSE FirstHolder(CandidateNamespaces(namespace, in.path), in.holders)
        cluster == FirstClusterOwner(in.owners)
    IN  IF in.scName = NoSC THEN Unresolved("ignored", 0)
        ELSE IF ~in.scReadable THEN Unresolved("permanent", 0)
        ELSE IF in.provisioner # PROVISIONER THEN Unresolved("ignored", 0)
        ELSE IF in.dsKind # "PersistentVolumeClaim" THEN Unresolved("permanent", 0)
        ELSE IF srcNs = NoNs THEN Unresolved("permanent", 0)
        ELSE IF in.phase # "Bound" THEN Unresolved("temporary", REQUEUE_DELAY)
        ELSE IF cluster = "" THEN Unresolved("permanent", 0)
        ELSE IF ~in.clusterOk THEN Unresolved("permanent", 0)
        ELSE IF in.pods = <<>> \/ ~in.secretsOk THEN Unresolved("temporary", REQUEUE_DELAY)
        ELSE [kind |-> "resolved", delay |-> 0,
              reclaim |-> IF in.scReclaim = NoPolicy THEN "Retain" ELSE in.scReclaim,
              scName |-> in.scName, srcNs |-> srcNs, cluster |-> cluster,
              node |-> in.pods[1]]

\* every way the resolution of a claim in a namespace can end, with the
\* reclaim policy of the storage class and the pods it was computed from
ResolveResults ==
    {[ns |-> k[1], scReclaim |-> in.scReclaim, pods |-> in.pods,
      holders |-> in.holders,
      r |-> Resolve(k[1], in)] : k \in ClaimKeys, in \in ResolveInputs}

\* The storage class's reclaim policy, the namespaces holding the source
\* claim and the scheduling of the cluster's pods stay as they are during a
\* behaviour (the source claim and the pods may be missing at times).
SourceHolders == {"shared", "other"}

Worlds ==
    {[scReclaim |-> NoPolicy, pods |-> <<"n1", "n2">>, holders |-> SourceHolders],
     [scReclaim |-> "Retain", pods |-> <<"n1", "n2">>, holders |-> SourceHolders],
     [scReclaim |-> "Delete", pods |-> <<"n1", "n2">>, holders |-> SourceHolders],
     [scReclaim |-> "Delete", pods |-> <<NoNode, "n1">>, holders |-> SourceHolders]}

-----------------------------------------------------------------------------
(* Orchestrator objects *)

NoClaim == [exists |-> FALSE, uid |-> NoUid, done |-> FALSE]

NoRef == [namespace |-> "", name |-> "", uid |-> NoUid]

NoAnn == [label |-> <<>>, srcNs |-> NoNs, claimNs |-> "", claimName |-> "",
          scName |-> NoSC, node |-> NoNode, cluster |-> ""]

NoPV == [exists |-> FALSE, sc |-> NoSC, claimRef |-> NoRef, reclaim |-> NoPolicy,
         ann |-> NoAnn, phase |-> "", phaseSeen |-> TRUE, deleting |-> FALSE]

\* the status fields of a Job the handlers watch
NoStatus == [succeeded |-> 0, failed |-> 0, conds |-> ""]

\* seen: the status recorded on the object as handled; inc: the run of the
\* controller that created the job; at: the run that handled its success
\* while its volume had no storage class; fired: how many times the
\* status.failed handler met its edge
NoJob == [exists |-> FALSE, ns |-> NoNs, node |-> NoNode, status |-> NoStatus,
          seen |-> NoStatus, inc |-> 0, at |-> 0, fired |-> 0]

\* done: the pod of the cleanup job has run; status, seen: as for a
\* BackupJob
NoCleanup == [exists |-> FALSE, ns |-> NoNs, node |-> NoNode, path |-> <<>>,
              done |-> FALSE, status |-> NoStatus, seen |-> NoStatus]

\* a volume published with the storage class already set
PreBoundForm_with_class(k, guid, r) ==
    [exists |-> TRUE, sc |-> r.scName, claimRef |-> NoRef, reclaim |-> r.reclaim,
     ann |-> [label |-> guid, srcNs |-> r.srcNs, claimNs |-> k[1],
              claimName |-> k[2], scName |-> r.scName, node |-> r.node,
              cluster |-> r.cluster],
     phase |-> "Available", phaseSeen |-> TRUE, deleting |-> FALSE]

\* the V1PersistentVolume of lines 208-233: no storage class, no claim
\* reference, the recovery annotations
PreBoundForm(k, guid, r) ==
    [exists |-> TRUE, sc |-> NoSC, claimRef |-> NoRef, reclaim |-> r.reclaim,
     ann |-> [label |-> guid, srcNs |-> r.srcNs, claimNs |-> k[1],
              claimName |-> k[2], scName |-> r.scName, node |-> r.node,
              cluster |-> r.cluster],
     phase |-> "Available", phaseSeen |-> TRUE, deleting |-> FALSE]

\* the V1Job of lines 251-350: in the source namespace, pinned to the
\* source node
BackupJobForm(guid, r) ==
    [exists |-> TRUE, ns |-> r.srcNs, node |-> r.node, status |-> NoStatus,
     seen |-> NoStatus, inc |-> restarts, at |-> restarts, fired |-> 0]

\* a bind that leaves the UID out of the claim reference
BoundForm_without_uid(p, uid) ==
    [p EXCEPT !.sc = p.ann.scName,
              !.claimRef = [namespace |-> p.ann.claimNs, name |-> p.ann.claimName,
                            uid |-> NoUid]]

\* lines 388-394: the storage class of the annotation and a claim reference
\* with the UID of the claim that was read
BoundForm(p, uid) ==
    [p EXCEPT !.sc = p.ann.scName,
              !.claimRef = [namespace |-> p.ann.claimNs, name |-> p.ann.claimName,
                            uid |-> uid]]

\* a cleanup job left to the scheduler, in the default namespace
CleanupJobForm_unpinned(guid, ann) ==
    [exists |-> TRUE, ns |-> "default", node |-> NoNode, path |-> PvPath(guid),
     done |-> FALSE, status |-> NoStatus, seen |-> NoStatus]

\* the V1Job of lines 513-549
CleanupJobForm(guid, ann) ==
    [exists |-> TRUE,
     ns |-> IF ann.srcNs = NoNs THEN "default" ELSE ann.srcNs,
     node |-> ann.node,
     path |-> PvPath(guid),
     done |-> FALSE, status |-> NoStatus, seen |-> NoStatus]

\* v1.read_persistent_volume(name): the guids whose volume carries that
\* name in the volumes pvs (none: 404)
PvNamed(pvs, name) == {g \in Guids : pvs[g].exists /\ PvName(g) = name}

\* v1.delete_persistent_volume(name): the volume is marked for deletion and
\* stays until its delete handlers have run; no volume of that name: 404
DeletePv(pvs, name) ==
    [g \in Guids |-> IF g \in PvNamed(pvs, name)
                     THEN [pvs[g] EXCEPT !.deleting = TRUE] ELSE pvs[g]]

RECURSIVE SumPv(_)
SumPv(S) ==
    IF S = {} THEN 0
    ELSE LET g == CHOOSE x \in S : TRUE
         IN  created[g].pv + created[g].byHand + SumPv(S \ {g})

\* volumes created so far, over all guids, by the controller or by hand
TotalPvCreated == SumPv(Guids)

\* the guids a volume was created for
Provisioned == {g \in Guids : created[g].pv + created[g].byHand > 0}

\* no claim-created event is followed on its own
NoRequest == [in |-> [scName |-> NoSC], out |-> "", delay |-> 0]

\* no call of get_db_connection is under way
NoTls == [pc |-> "idle", in |-> [podOk |-> FALSE], next |-> 0,
          paths |-> <<"", "", "">>, disk |-> {}, out |-> ""]

Init ==
    /\ claim = [k \in ClaimKeys |-> NoClaim]
    /\ issued = 0
    /\ pv = [g \in Guids |-> NoPV]
    /\ job = [g \in Guids |-> NoJob]
    /\ cleanup = [g \in Guids |-> NoCleanup]
    /\ created = [g \in Guids |-> [pv |-> 0, job |-> 0, byHand |-> 0]]
    /\ world \in Worlds
    /\ restarts = 0
    /\ hostDir = [g \in Guids |-> FALSE]
    /\ request = NoRequest
    /\ tls = NoTls

-----------------------------------------------------------------------------
(* The users and the orchestrator *)

\* a user creates a claim; the API server gives it a fresh UID (NoUid: a
\* claim whose metadata carries no uid, the case of line 203's default)
CreateClaim(k) ==
    /\ ~claim[k].exists
    /\ \E u \in {UidSeq[i] : i \in {issued + 1} \cap DOMAIN UidSeq} \cup {NoUid} :
          /\ claim' = [claim EXCEPT ![k] = [exists |-> TRUE, uid |-> u, done |-> FALSE]]
          /\ issued' = IF u = NoUid THEN issued ELSE issued + 1
    /\ UNCHANGED <<pv, job, cleanup, created, world, hostDir, request, tls, restarts>>

\* a user deletes a claim
DeleteClaim(k) ==
    /\ claim[k].exists
    /\ claim' = [claim EXCEPT ![k] = NoClaim]
    /\ UNCHANGED <<issued, pv, job, cleanup, created, world, hostDir, request, tls, restarts>>

\* a pod of the BackupJob fails and the job retries; the pod's hostPath
\* volume (lines 285-290) has made the directory of the guid on its node
PodFails(g) ==
    /\ job[g].exists /\ job[g].status.conds = ""
    /\ job[g].status.failed < MaxPodFailures
    /\ job' = [job EXCEPT ![g].status.failed = @ + 1]
    /\ hostDir' = [hostDir EXCEPT ![g] = TRUE]
    /\ UNCHANGED <<claim, issued, pv, cleanup, created, world, restarts, request, tls>>

\* a pod of the BackupJob succeeds: status.succeeded = 1, condition Complete
JobCompletes(g) ==
    /\ job[g].exists /\ job[g].status.conds = ""
    /\ job' = [job EXCEPT ![g].status.succeeded = 1, ![g].status.conds = "Complete"]
    /\ hostDir' = [hostDir EXCEPT ![g] = TRUE]
    /\ UNCHANGED <<claim, issued, pv, cleanup, created, world, restarts, request, tls>>

\* the BackupJob gives up: condition Failed=True
JobGivesUp(g) ==
    /\ job[g].exists /\ job[g].status.conds = ""
    /\ job[g].status.failed = MaxPodFailures
    /\ job' = [job EXCEPT ![g].status.conds = "Failed"]
    /\ UNCHANGED <<claim, issued, pv, cleanup, created, world, hostDir, request, tls, restarts>>

\* The pod of a cleanup job runs `rm -rf /cleanup/{guid}` (line 537) on the
\* node it was given; a job without a node is placed by the scheduler, on
\* the node of the directory or on another one.
CleanupRuns(g) ==
    /\ cleanup[g].exists /\ ~cleanup[g].done /\ cleanup[g].status.conds = ""
    /\ cleanup' = [cleanup EXCEPT ![g].done = TRUE,
                                  ![g].status.succeeded = 1,
                                  ![g].status.conds = "Complete"]
    /\ \E there \in IF cleanup[g].node = NoNode THEN BOOLEAN
                     ELSE {job[g].exists => cleanup[g].node = job[g].node} :
          hostDir' = [hostDir EXCEPT ![g] = @ /\ ~there]
    /\ UNCHANGED <<claim, issued, pv, job, created, world, restarts, request, tls>>

\* a pod of the cleanup job fails before it has removed anything (its
\* node is not ready, its image cannot be pulled) and the job retries
CleanupPodFails(g) ==
    /\ cleanup[g].exists /\ cleanup[g].status.conds = ""
    /\ cleanup[g].status.failed < MaxCleanupFailures
    /\ cleanup' = [cleanup EXCEPT ![g].status.failed = @ + 1]
    /\ UNCHANGED <<claim, issued, pv, job, created, world, hostDir, request, tls,
                   restarts>>

\* the cleanup job gives up: condition Failed=True
CleanupGivesUp(g) ==
    /\ cleanup[g].exists /\ cleanup[g].status.conds = ""
    /\ cleanup[g].status.failed = MaxCleanupFailures
    /\ cleanup' = [cleanup EXCEPT ![g].status.conds = "Failed"]
    /\ UNCHANGED <<claim, issued, pv, job, created, world, hostDir, request, tls,
                   restarts>>

\* the phase the volume controller gives a volume
PhaseOf(p) ==
    LET k == <<p.claimRef.namespace, p.claimRef.name>>
    IN  IF p.phase = "Failed" THEN "Failed"
        ELSE IF p.phase = "Released"
             THEN (IF p.reclaim = "Delete" THEN "Failed" ELSE "Released")
        ELSE IF p.claimRef = NoRef \/ p.sc = NoSC THEN p.phase
        ELSE IF k \in ClaimKeys /\ claim[k].exists /\ claim[k].uid = p.claimRef.uid
             THEN "Bound"
        ELSE "Released"

\* the orchestrator mutates the phase of a volume
PvPhaseChange(g) ==
    /\ pv[g].exists /\ ~pv[g].deleting
    /\ PhaseOf(pv[g]) # pv[g].phase
    /\ pv' = [pv EXCEPT ![g].phase = PhaseOf(pv[g]), ![g].phaseSeen = FALSE]
    /\ UNCHANGED <<claim, issued, job, cleanup, created, world, hostDir, request, tls, restarts>>

\* the volumes a user makes by hand with the label of the managed ones:
\* without annotations, with the backup label only, or with the backup
\* label and the node; the reclaim policy unset or Delete
HandMadeForms(g) ==
    {[NoPV EXCEPT !.exists = TRUE, !.phase = "Available", !.reclaim = rp, !.ann = a] :
        rp \in {NoPolicy, "Delete"},
        a \in {NoAnn, [NoAnn EXCEPT !.label = g],
               [NoAnn EXCEPT !.label = g, !.node = "n2"]}}

\* a user creates a volume carrying the label app.kubernetes.io/managed-by
UserCreatesPv(g) ==
    /\ g \in RandPool /\ ~pv[g].exists /\ created[g].pv = 0
    /\ TotalPvCreated < MaxPvCreates
    /\ Cardinality(Provisioned \cup {g}) <= MaxGuids
    /\ \E p \in HandMadeForms(g) : pv' = [pv EXCEPT ![g] = p]
    /\ created' = [created EXCEPT ![g].byHand = @ + 1]
    /\ UNCHANGED <<claim, issued, job, cleanup, world, hostDir, request, tls, restarts>>

\* a user deletes a volume
UserDeletesPv(g) ==
    /\ pv[g].exists /\ ~pv[g].deleting
    /\ pv' = DeletePv(pv, PvName(g))
    /\ UNCHANGED <<claim, issued, job, cleanup, created, world, hostDir, request, tls, restarts>>

\* The controller stops after a handler has run and before the framework
\* has recorded it on the object (persist = FALSE), and is started again:
\* the event is then handled again.
Recorded(persist) ==
    /\ ~persist => restarts < MaxRestarts
    /\ restarts' = IF persist THEN restarts ELSE restarts + 1

\* the controller is stopped and started again between two events
Restart ==
    /\ restarts < MaxRestarts
    /\ restarts' = restarts + 1
    /\ UNCHANGED <<claim, issued, pv, job, cleanup, created, world, hostDir, request, tls>>

-----------------------------------------------------------------------------
(* handle_pvc_create *)

\* line 203: the claim's UID, or a random value when the UID is unavailable
GuidsFor(uid, kind) ==
    IF uid # NoUid THEN {uid}
    ELSE IF kind = "resolved"
         THEN {g \in RandPool : created[g].pv = 0 /\ created[g].byHand = 0}
    ELSE {<<>>}

\* how a run of handle_pvc_create ends: r the resolution, fault the API call
\* that fails (if any)
CreateResult(guid, r, fault) ==
    IF r.kind # "resolved" THEN r.kind
    ELSE IF fault = "pv" \/ pv[guid].exists THEN "pv_error"
    ELSE IF fault = "job" \/ job[guid].exists THEN "job_error"
    ELSE "ok"

\* A run of the handler for the claim k: the resolution, then the creations
\* of lines 234 and 351.  An exception of an API call ends the run, and the
\* framework runs the handler again later, as after a TemporaryError.
handle_pvc_create_run(k, guid, r, fault, persist) ==
    LET res == CreateResult(guid, r, fault)
        pvOk == res \in {"job_error", "ok"}
        jobOk == res = "ok"
        finished == res \in {"ignored", "permanent", "ok"}
    IN  /\ claim[k].exists /\ ~claim[k].done
        /\ guid \in GuidsFor(claim[k].uid, r.kind)
        /\ pvOk => /\ TotalPvCreated < MaxPvCreates
                   /\ Cardinality(Provisioned \cup {guid}) <= MaxGuids
        /\ pv' = IF pvOk THEN [pv EXCEPT ![guid] = PreBoundForm(k, guid, r)] ELSE pv
        /\ job' = IF jobOk THEN [job EXCEPT ![guid] = BackupJobForm(guid, r)] ELSE job
        /\ created' = IF pvOk
                      THEN [created EXCEPT ![guid] =
                               [@ EXCEPT !.pv = @ + 1,
                                         !.job = IF jobOk THEN @ + 1 ELSE @]]
                      ELSE created
        /\ claim' = [claim EXCEPT ![k].done = finished /\ persist]
        /\ Recorded(persist)
        /\ UNCHANGED <<issued, cleanup, world, hostDir, tls>>

\* the ways the resolution of the claim k can end in the world w
ResultsIn(k, w) ==
    {rr.r : rr \in {x \in ResolveResults :
                        /\ x.ns = k[1]
                        /\ x.scReclaim = w.scReclaim
                        /\ x.pods \in {<<>>, w.pods}
                        /\ x.holders \in {{}, w.holders}}}

handle_pvc_create(k) ==
    \E r \in ResultsIn(k, world), fault \in {"none", "pv", "job"},
       persist \in BOOLEAN :
        /\ \E guid \in Guids \cup {<<>>} :
              handle_pvc_create_run(k, guid, r, fault, persist)
        /\ UNCHANGED request

-----------------------------------------------------------------------------
(* The job handlers *)

\* lines 359-407 of handle_job_succeeded on the volumes pvs: the volumes
\* after it and how it ended.  replaceOk: replace_persistent_volume succeeds.
BindVolume(pvs, name, replaceOk) ==
    LET guid == StripJobPrefix(name)
        hits == PvNamed(pvs, PvName(guid))
    IN  IF hits = {} THEN [pvs |-> pvs, res |-> "no_pv"]
        ELSE LET g == CHOOSE x \in hits : TRUE
                 p == pvs[g]
                 k == <<p.ann.claimNs, p.ann.claimName>>
             IN  IF p.ann.scName = NoSC \/ p.ann.claimName = "" \/ p.ann.claimNs = ""
                 THEN [pvs |-> pvs, res |-> "no_annotations"]
                 ELSE IF ~(k \in ClaimKeys /\ claim[k].exists)
                 THEN [pvs |-> pvs, res |-> "no_claim"]
                 ELSE IF ~replaceOk
                 THEN [pvs |-> pvs, res |-> "api_error"]
                 ELSE [pvs |-> [pvs EXCEPT ![g] = BoundForm(p, claim[k].uid)],
                       res |-> "bound"]

\* a bind that needs the controller run that created the job
handle_job_succeeded_from_memory(pvs, name, old, new, replaceOk) ==
    IF old = 0 /\ new = 1 /\ \A g \in PvNamed(pvs, PvName(StripJobPrefix(name))) :
                                 job[g].inc = restarts
    THEN BindVolume(pvs, name, replaceOk)
    ELSE [pvs |-> pvs, res |-> "skipped"]

\* handle_job_succeeded (lines 353-410): the edge old absent or 0, new 1
handle_job_succeeded(pvs, name, old, new, replaceOk) ==
    IF old = 0 /\ new = 1
    THEN BindVolume(pvs, name, replaceOk)
    ELSE [pvs |-> pvs, res |-> "skipped"]

\* a failure handler that does not look at the old value
handle_job_failed_any_old(pvs, name, old, new) ==
    IF new >= 1
    THEN DeletePv(pvs, PvName(StripJobPrefix(name)))
    ELSE pvs

\* handle_job_failed on status.failed (lines 412-425)
handle_job_failed(pvs, name, old, new) ==
    IF old = 0 /\ new = 1
    THEN DeletePv(pvs, PvName(StripJobPrefix(name)))
    ELSE pvs

\* handle_job_failed on status.conditions (lines 466-488): the volume name
\* is built from the last segment of the job name, and deleted twice
handle_job_failed_conditions(pvs, name, conds) ==
    IF conds = "Failed"
    THEN DeletePv(DeletePv(pvs, PvName(LastSegment(name))), PvName(LastSegment(name)))
    ELSE pvs

\* the volumes after the handlers of a job update have run: each handler
\* whose field changed runs, in the order of registration, with the old and
\* new value of its field
JobHandlers(n, old, new, replaceOk) ==
    LET p1  == IF old.succeeded # new.succeeded
               THEN handle_job_succeeded(pv, n, old.succeeded, new.succeeded, replaceOk).pvs
               ELSE pv
        p2  == IF old.failed # new.failed
               THEN handle_job_failed(p1, n, old.failed, new.failed)
               ELSE p1
    IN  IF old.conds # new.conds
        THEN handle_job_failed_conditions(p2, n, new.conds)
        ELSE p2

\* the volumes after the handlers have run on the update of the BackupJob
\* of g
AfterJobHandlers(g, replaceOk) ==
    JobHandlers(JobName(g), job[g].seen, job[g].status, replaceOk)

\* An update of a BackupJob's status reaches the controller.
JobEventRun(g, replaceOk, persist) ==
    /\ job[g].exists /\ job[g].seen # job[g].status
    /\ pv' = AfterJobHandlers(g, replaceOk)
    /\ job' = [job EXCEPT ![g].seen = IF persist THEN job[g].status ELSE @,
                          ![g].at = IF /\ job[g].seen.succeeded = 0
                                       /\ job[g].status.succeeded = 1
                                       /\ pv[g].exists /\ pv[g].sc = NoSC
                                    THEN restarts ELSE @,
                          ![g].fired = IF /\ job[g].seen.failed = 0
                                          /\ job[g].status.failed = 1
                                       THEN @ + 1 ELSE @]
    /\ Recorded(persist)
    /\ UNCHANGED <<claim, issued, cleanup, created, world, hostDir, request, tls>>

JobEvent(g) == \E replaceOk \in BOOLEAN, persist \in BOOLEAN : JobEventRun(g, replaceOk, persist)

\* An update of a cleanup job's status reaches the controller: the job
\* carries the label app.kubernetes.io/managed-by=pg-reflinker (line 518),
\* so the three job handlers run on it as on a BackupJob.
CleanupJobEventRun(g, replaceOk, persist) ==
    /\ cleanup[g].exists /\ cleanup[g].seen # cleanup[g].status
    /\ pv' = JobHandlers(CleanupJobName(g), cleanup[g].seen, cleanup[g].status,
                         replaceOk)
    /\ cleanup' = [cleanup EXCEPT
                      ![g].seen = IF persist THEN cleanup[g].status ELSE @]
    /\ Recorded(persist)
    /\ UNCHANGED <<claim, issued, job, created, world, hostDir, request, tls>>

CleanupJobEvent(g) ==
    \E replaceOk \in BOOLEAN, persist \in BOOLEAN : CleanupJobEventRun(g, replaceOk, persist)

-----------------------------------------------------------------------------
(* The volume handlers *)

\* spec.get('persistentVolumeReclaimPolicy', 'Retain') of lines 435 and 498
ReclaimPolicyOf(p) == IF p.reclaim = NoPolicy THEN "Retain" ELSE p.reclaim

\* the first handle_pv_delete (lines 427-450): it logs
handle_pv_delete_log(cs, body) == cs

\* a delete handler that does not look at the reclaim policy
handle_pv_delete_any_policy(cs, body, createOk) ==
    LET guid == body.ann.label
    IN  IF guid = <<>> THEN [cs |-> cs, res |-> "no_label"]
        ELSE IF ~createOk \/ cs[guid].exists THEN [cs |-> cs, res |-> "api_error"]
        ELSE [cs |-> [cs EXCEPT ![guid] = CleanupJobForm(guid, body.ann)],
              res |-> "created"]

\* the second handle_pv_delete (lines 490-550) on the cleanup jobs cs, for
\* the deleted volume body.  createOk: create_namespaced_job succeeds.
handle_pv_delete(cs, body, createOk) ==
    LET guid == body.ann.label
    IN  IF guid = <<>> THEN [cs |-> cs, res |-> "no_label"]
        ELSE IF ReclaimPolicyOf(body) # "Delete" THEN [cs |-> cs, res |-> "retain"]
        ELSE IF ~createOk \/ cs[guid].exists THEN [cs |-> cs, res |-> "api_error"]
        ELSE [cs |-> [cs EXCEPT ![guid] = CleanupJobForm(guid, body.ann)],
              res |-> "created"]

\* The deletion of a volume reaches the controller: both delete handlers
\* run; when they have returned the volume is gone, when one raises the
\* volume stays and the handlers run again.
PvDeleteEventRun(g, createOk, persist) ==
    LET r == handle_pv_delete(handle_pv_delete_log(cleanup, pv[g]), pv[g], createOk)
    IN  /\ pv[g].exists /\ pv[g].deleting
        /\ cleanup' = r.cs
        /\ pv' = IF r.res # "api_error" /\ persist
                 THEN [pv EXCEPT ![g] = NoPV] ELSE pv
        /\ Recorded(persist)
        /\ UNCHANGED <<claim, issued, job, created, world, hostDir, request, tls>>

PvDeleteEvent(g) ==
    \E createOk \in BOOLEAN, persist \in BOOLEAN : PvDeleteEventRun(g, createOk, persist)

\* on_pv_phase_change (lines 453-464): it reads the volume
on_pv_phase_change(pvs, name, new) == pvs

\* handle_pv_failed (lines 552-561)
handle_pv_failed(pvs, name, new) ==
    IF new = "Failed" THEN DeletePv(pvs, name) ELSE pvs

\* A change of a volume's phase reaches the controller
PvPhaseEvent(g) ==
    /\ pv[g].exists /\ ~pv[g].deleting /\ ~pv[g].phaseSeen
    /\ \E persist \in BOOLEAN :
        LET p1 == on_pv_phase_change(pv, PvName(g), pv[g].phase)
            p2 == handle_pv_failed(p1, PvName(g), pv[g].phase)
        IN  /\ pv' = [p2 EXCEPT ![g].phaseSeen = persist]
            /\ Recorded(persist)
    /\ UNCHANGED <<claim, issued, job, cleanup, created, world, hostDir, request, tls>>

-----------------------------------------------------------------------------

Next ==
    \/ \E k \in ClaimKeys : handle_pvc_create(k)
    \/ \E g \in Guids : JobEvent(g)
    \/ \E g \in Guids : PvDeleteEvent(g)
    \/ \E g \in Guids : PvPhaseEvent(g)
    \/ Restart
    \/ \E k \in ClaimKeys : CreateClaim(k)
    \/ \E k \in ClaimKeys : DeleteClaim(k)
    \/ \E g \in Guids : PodFails(g)
    \/ \E g \in Guids : JobCompletes(g)
    \/ \E g \in Guids : JobGivesUp(g)
    \/ \E g \in Guids : CleanupRuns(g)
    \/ \E g \in Guids : PvPhaseChange(g)
    \/ \E g \in Guids : UserCreatesPv(g)
    \/ \E g \in Guids : UserDeletesPv(g)

Spec == Init /\ [][Next]_vars

\* A run of handle_pvc_create in which every read finds what it needs, no
\* API call is refused for a reason of its own, and the framework records
\* the outcome.
handle_pvc_create_clean(k) ==
    \E r \in {x \in ResultsIn(k, world) : x.kind = "resolved"} :
        /\ \E guid \in Guids : handle_pvc_create_run(k, guid, r, "none", TRUE)
        /\ UNCHANGED request

\* The framework runs a handler that raised again and again (kopf retries
\* every exception but PermanentError), and the faults of the cluster are
\* passing: a clean run of handle_pvc_create that stays possible happens.
FairSpec == Spec /\ \A k \in ClaimKeys : SF_vars(handle_pvc_create_clean(k))

-----------------------------------------------------------------------------
(* The job handlers on the cleanup jobs.  Under a storage class with reclaim
   policy Delete every deleted volume leaves a cleanup job; the updates of
   its status reach the job handlers like those of a BackupJob.  One claim,
   with or without a UID, is followed from its creation through the
   deletions of its volume. *)

CleanupInit ==
    /\ \E u \in {UidSeq[1], NoUid} :
          /\ claim = [k \in ClaimKeys |-> [exists |-> TRUE, uid |-> u, done |-> FALSE]]
          /\ issued = IF u = NoUid THEN 0 ELSE 1
    /\ pv = [g \in Guids |-> NoPV]
    /\ job = [g \in Guids |-> NoJob]
    /\ cleanup = [g \in Guids |-> NoCleanup]
    /\ created = [g \in Guids |-> [pv |-> 0, job |-> 0, byHand |-> 0]]
    /\ world \in {w \in Worlds : w.scReclaim = "Delete"}
    /\ restarts = 0
    /\ hostDir = [g \in Guids |-> FALSE]
    /\ request = NoRequest
    /\ tls = NoTls

CleanupNext ==
    \/ \E k \in ClaimKeys : handle_pvc_create(k)
    \/ \E g \in Guids : JobEvent(g)
    \/ \E g \in Guids : PvDeleteEvent(g)
    \/ \E g \in Guids : CleanupJobEvent(g)
    \/ \E g \in Guids : PodFails(g)
    \/ \E g \in Guids : JobCompletes(g)
    \/ \E g \in Guids : UserCreatesPv(g)
    \/ \E g \in Guids : UserDeletesPv(g)
    \/ \E g \in Guids : CleanupRuns(g)
    \/ \E g \in Guids : CleanupPodFails(g)
    \/ \E g \in Guids : CleanupGivesUp(g)

CleanupSpec == CleanupInit /\ [][CleanupNext]_vars

-----------------------------------------------------------------------------
(* handle_pvc_create on its own: one claim, every answer of the cluster *)

\* a claim has just been created; the cluster will answer the handler's
\* reads as request.in says
ResolveInit ==
    /\ claim = [k \in ClaimKeys |->
                   [exists |-> TRUE, uid |-> UidSeq[1], done |-> FALSE]]
    /\ issued = 1
    /\ pv = [g \in Guids |-> NoPV]
    /\ job = [g \in Guids |-> NoJob]
    /\ cleanup = [g \in Guids |-> NoCleanup]
    /\ created = [g \in Guids |-> [pv |-> 0, job |-> 0, byHand |-> 0]]
    /\ restarts = 0
    /\ hostDir = [g \in Guids |-> FALSE]
    /\ tls = NoTls
    /\ \E in \in ResolveInputs :
          /\ request = [in |-> in, out |-> "", delay |-> 0]
          /\ world = [scReclaim |-> in.scReclaim, pods |-> in.pods,
                      holders |-> in.holders]

\* the claim-created event of k is handled against the answers of
\* request.in; how the run ended is kept in request
HandleRequest(k) ==
    /\ request.out = ""
    /\ \E guid \in Guids \cup {<<>>}, fault \in {"none", "pv", "job"},
          persist \in BOOLEAN :
          LET r == Resolve(k[1], request.in)
          IN  /\ handle_pvc_create_run(k, guid, r, fault, persist)
              /\ request' = [request EXCEPT !.out = CreateResult(guid, r, fault),
                                            !.delay = r.delay]

ResolveNext == \E k \in ClaimKeys : HandleRequest(k)

ResolveSpec == ResolveInit /\ [][ResolveNext]_vars

-----------------------------------------------------------------------------
(* get_db_connection on its own: one call, every answer of the cluster *)

\* the names tempfile.NamedTemporaryFile gives the three files, in the
\* order of their creation (lines 47, 51, 55)
TempNames == <<"tmp1.crt", "tmp2.key", "tmp3.crt">>

\* what a call meets: a pod of the cluster or none, the two secrets
\* readable or not, each of tls.crt, tls.key and ca.crt present and
\* decodable ("ok"), absent from its secret ("missing") or not base64 text
\* ("bad"), and a server that accepts the connection or not
CertInputs ==
    [ podOk     : BOOLEAN,
      secretsOk : BOOLEAN,
      data      : [1..3 -> {"ok", "missing", "bad"}],
      connectOk : BOOLEAN ]

CertInit ==
    /\ claim = [k \in ClaimKeys |-> NoClaim]
    /\ issued = 0
    /\ pv = [g \in Guids |-> NoPV]
    /\ job = [g \in Guids |-> NoJob]
    /\ cleanup = [g \in Guids |-> NoCleanup]
    /\ created = [g \in Guids |-> [pv |-> 0, job |-> 0, byHand |-> 0]]
    /\ world = [scReclaim |-> NoPolicy, pods |-> <<"n1", "n2">>,
                holders |-> SourceHolders]
    /\ restarts = 0
    /\ hostDir = [g \in Guids |-> FALSE]
    /\ request = NoRequest
    /\ \E in \in CertInputs :
          tls = [pc |-> "start", in |-> in, next |-> 0,
                 paths |-> <<"", "", "">>, disk |-> {}, out |-> ""]

\* the files os.unlink removes in the loops of lines 61-63, 90-92 and
\* 96-98: those whose path the function holds and that exist
Unlinked(t) == {t.paths[i] : i \in 1..3} \cap t.disk

\* lines 82-83 of get_db_connection: get_cnpg_pod and get_db_secrets; an
\* exception of either leaves the function before any file is made
GetPodAndSecrets ==
    /\ tls.pc = "start"
    /\ tls' = IF ~tls.in.podOk
              THEN [tls EXCEPT !.pc = "done", !.out = "temporary"]
              ELSE IF ~tls.in.secretsOk
              THEN [tls EXCEPT !.pc = "done", !.out = "raised"]
              ELSE [tls EXCEPT !.pc = "certs", !.next = 1]
    /\ UNCHANGED <<claim, issued, pv, job, cleanup, created, world, restarts,
                   hostDir, request>>

\* one with-block of create_temp_certs (lines 47-49, 51-53, 55-57):
\* NamedTemporaryFile(delete=False) makes the file, then the data is read
\* from the secret, decoded and written, and only then the path is kept;
\* an exception in the block closes the file and leaves it on disk
WriteCertFile(i) ==
    /\ tls.pc = "certs" /\ tls.next = i
    /\ tls' = IF tls.in.data[i] = "ok"
              THEN [tls EXCEPT !.disk = @ \cup {TempNames[i]},
                               !.paths[i] = TempNames[i],
                               !.next = i + 1,
                               !.pc = IF i = 3 THEN "connect" ELSE "certs"]
              ELSE [tls EXCEPT !.disk = @ \cup {TempNames[i]},
                               !.pc = "certs_except"]
    /\ UNCHANGED <<claim, issued, pv, job, cleanup, created, world, restarts,
                   hostDir, request>>

\* the except clause of create_temp_certs (lines 59-64): the files whose
\* path was kept are removed and the exception goes on to the caller,
\* whose try block has not begun (line 84)
CreateTempCertsFails ==
    /\ tls.pc = "certs_except"
    /\ tls' = [tls EXCEPT !.disk = @ \ Unlinked(tls), !.pc = "done",
                         !.out = "raised"]
    /\ UNCHANGED <<claim, issued, pv, job, cleanup, created, world, restarts,
                   hostDir, request>>

\* lines 86-99 of get_db_connection: connect_to_db, then the three files
\* are removed, on the success path and in the except clause
ConnectToDb ==
    /\ tls.pc = "connect"
    /\ tls' = [tls EXCEPT !.disk = @ \ Unlinked(tls), !.pc = "done",
                         !.out = IF tls.in.connectOk THEN "conn" ELSE "raised"]
    /\ UNCHANGED <<claim, issued, pv, job, cleanup, created, world, restarts,
                   hostDir, request>>

CertNext ==
    \/ GetPodAndSecrets
    \/ \E i \in 1..3 : WriteCertFile(i)
    \/ CreateTempCertsFails
    \/ ConnectToDb

CertSpec == CertInit /\ [][CertNext]_vars

-----------------------------------------------------------------------------
(* Properties *)

\* the key of the claim a volume's annotations name
ClaimKeyOf(p) == <<p.ann.claimNs, p.ann.claimName>>

\* the claim a volume's annotations name exists
ClaimPresent(p) == ClaimKeyOf(p) \in ClaimKeys /\ claim[ClaimKeyOf(p)].exists

\* the update of the job of g about to be handled shows status.succeeded
\* going from unset/0 to 1
SuccessEdge(g) == job[g].seen.succeeded = 0 /\ job[g].status.succeeded = 1

\* C1 (late binding): after every step, a SnapshotVolume has its storage
\* class set only if its BackupJob has reported status.succeeded = 1; a step
\* that creates a volume leaves the storage class unset, and only a step
\* handling a job update sets it.
C1_LateBinding ==
    [][\A g \in Guids :
          /\ (pv'[g].exists /\ pv'[g].sc # NoSC)
                => (job'[g].exists /\ job'[g].status.succeeded = 1)
          /\ (~pv[g].exists /\ pv'[g].exists) => pv'[g].sc = NoSC
          /\ (pv[g].sc = NoSC /\ pv'[g].sc # NoSC)
                => (SuccessEdge(g) /\ \E ok \in BOOLEAN, persist \in BOOLEAN :
                                         JobEventRun(g, ok, persist))]_vars

\* C1: a volume created once by the controller carries a storage class, and
\* its job has succeeded
C1_Witness ==
    \E g \in Guids : /\ pv[g].exists /\ pv[g].sc # NoSC
                     /\ created[g].pv = 1 /\ job[g].status.succeeded = 1

\* C2 (uniqueness under re-delivery): for every guid at most one
\* SnapshotVolume and at most one BackupJob are ever created.
C2_Uniqueness ==
    \A g \in Guids : created[g].pv <= 1 /\ created[g].job <= 1

\* C3 (claim reference of a bound volume): every volume with the storage
\* class set has a claim reference whose UID is not empty and is the UID of
\* the claim now existing under the annotated namespace and name.
C3_BoundUid ==
    \A g \in Guids :
        (pv[g].exists /\ pv[g].sc # NoSC)
            => /\ pv[g].claimRef.uid # NoUid
               /\ ClaimPresent(pv[g])
                    => claim[ClaimKeyOf(pv[g])].uid = pv[g].claimRef.uid

\* C4 (happy-path bind): when the update taking status.succeeded from
\* unset/0 to 1 is handled, the claim exists and the replace call succeeds,
\* the volume gets the storage class of its annotation and the claim
\* reference {claim namespace, claim name, claim UID}.
C4_HappyBind ==
    [][\A g \in Guids : \A persist \in BOOLEAN :
          (/\ JobEventRun(g, TRUE, persist)
           /\ SuccessEdge(g)
           /\ pv[g].exists /\ pv[g].ann.scName # NoSC
           /\ ClaimPresent(pv[g]))
            => /\ pv'[g].sc = pv[g].ann.scName
               /\ pv'[g].claimRef = [namespace |-> pv[g].ann.claimNs,
                                     name |-> pv[g].ann.claimName,
                                     uid |-> claim[ClaimKeyOf(pv[g])].uid]]_vars

\* C4: a volume is Bound to the claim that asked for it
C4_Witness ==
    \E g \in Guids :
        /\ pv[g].exists /\ pv[g].phase = "Bound" /\ pv[g].sc = StorageClassName
        /\ ClaimPresent(pv[g])
        /\ pv[g].claimRef.uid = claim[ClaimKeyOf(pv[g])].uid
        /\ pv[g].claimRef.uid = g

\* C5 (publish before backup): a step that creates the BackupJob of a guid
\* ends with the SnapshotVolume of the guid existing and carrying the
\* annotations source-backup-label, node and source-namespace, each with a
\* defined value.
C5_PublishBeforeBackup ==
    [][\A g \in Guids :
          (~job[g].exists /\ job'[g].exists)
            => /\ pv'[g].exists
               /\ pv'[g].ann.label = g
               /\ pv'[g].ann.node # NoNode
               /\ pv'[g].ann.srcNs # NoNs]_vars

\* C6 (cleanup on Delete): when the deletion of a labelled volume with
\* reclaim policy Delete is handled and the create call succeeds (no job of
\* that name is left from an earlier volume of the same guid), a cleanup
\* job for HOSTPATH_PREFIX/{guid} exists, on the node of the node annotation
\* (the node of the BackupJob), in the namespace of the source-namespace
\* annotation or in "default" when there is none.
C6_CleanupOnDelete ==
    [][\A g \in Guids : \A persist \in BOOLEAN :
          (/\ PvDeleteEventRun(g, TRUE, persist)
           /\ ~cleanup[g].exists
           /\ pv[g].ann.label = g
           /\ ReclaimPolicyOf(pv[g]) = "Delete")
            => /\ cleanup'[g].exists
               /\ cleanup'[g].path = Append(HOSTPATH_PREFIX, g)
               /\ cleanup'[g].node = pv[g].ann.node
               /\ job[g].exists => cleanup'[g].node = job[g].node
               /\ cleanup'[g].ns = IF pv[g].ann.srcNs = NoNs THEN "default"
                                   ELSE pv[g].ann.srcNs]_vars

\* C6: the cleanup job of a provisioned volume sits on the node and in the
\* namespace of its BackupJob, and the cleanup job of a volume without the
\* source-namespace annotation sits in "default"
C6_Witness ==
    \/ \E g \in Guids : /\ cleanup[g].exists /\ job[g].exists
                        /\ cleanup[g].node = "n1" /\ job[g].node = "n1"
                        /\ cleanup[g].ns = job[g].ns /\ ~pv[g].exists
    \/ \E g \in Guids : /\ cleanup[g].exists /\ created[g].byHand > 0
                        /\ cleanup[g].ns = "default" /\ cleanup[g].node = "n2"

\* C7 (nothing on Retain): when the deletion of a volume whose reclaim
\* policy is Retain or unset is handled, no cleanup job is created and no
\* claim, job or other volume changes; the volume itself goes or stays as
\* it was.
C7_RetainNoCleanup ==
    [][\A g \in Guids : \A ok \in BOOLEAN, persist \in BOOLEAN :
          (/\ PvDeleteEventRun(g, ok, persist)
           /\ ReclaimPolicyOf(pv[g]) # "Delete")
            => /\ cleanup' = cleanup
               /\ job' = job /\ claim' = claim
               /\ \A h \in Guids \ {g} : pv'[h] = pv[h]
               /\ pv'[g] \in {pv[g], NoPV}]_vars

\* C7: a volume with the backup label and policy Retain (given or by
\* default) was created and is gone, and there is no cleanup job
C7_Witness ==
    \E g \in Guids :
        /\ ~pv[g].exists /\ ~cleanup[g].exists
        /\ \/ created[g].pv > 0 /\ world.scReclaim \in {NoPolicy, "Retain"}
           \/ created[g].byHand > 0 /\ world.scReclaim = "Retain"

\* C8 (idempotence under re-delivery): an event delivered again changes no
\* object.  The claim-created event of a claim whose BackupJob was created
\* leaves volumes, jobs and cleanup jobs as they are; the success update of
\* a job whose volume is in bound form leaves that volume as it is; the
\* deletion of a volume whose cleanup job exists leaves the cleanup jobs as
\* they are.
C8_Idempotence ==
    [][/\ \A k \in ClaimKeys :
            (handle_pvc_create(k) /\ claim[k].uid # NoUid
                                  /\ created[claim[k].uid].job >= 1)
                => (pv' = pv /\ job' = job /\ cleanup' = cleanup)
       /\ \A g \in Guids : \A ok \in BOOLEAN, persist \in BOOLEAN :
            (JobEventRun(g, ok, persist) /\ SuccessEdge(g)
                /\ job[g].status.failed = job[g].seen.failed
                /\ job[g].status.conds # "Failed"
                /\ pv[g].exists /\ pv[g].sc # NoSC)
                => pv' = pv
       /\ \A g \in Guids : \A ok \in BOOLEAN, persist \in BOOLEAN :
            (PvDeleteEventRun(g, ok, persist) /\ cleanup[g].exists)
                => cleanup' = cleanup]_vars

\* C9 (crash recovery while Backing): when the success of a job is handled
\* by a later run of the controller than the one that created the job, the
\* volume gets the bound form computed from its annotations and the claim:
\* the storage class of the annotation and the claim reference with the
\* claim's UID, everything else as it was.
C9_CrashRecovery ==
    [][\A g \in Guids : \A persist \in BOOLEAN :
          (/\ JobEventRun(g, TRUE, persist)
           /\ SuccessEdge(g)
           /\ job[g].inc < restarts
           /\ pv[g].exists /\ pv[g].sc = NoSC /\ pv[g].ann.scName # NoSC
           /\ ClaimPresent(pv[g]))
            => [pv'[g] EXCEPT !.deleting = pv[g].deleting]
                  = BoundForm(pv[g], claim[ClaimKeyOf(pv[g])].uid)]_vars

\* C9: a job created by one run had its success handled and recorded by a
\* later run, and its volume is in bound form with the claim's UID
C9_Witness ==
    \E g \in Guids :
        /\ job[g].exists /\ job[g].seen.succeeded = 1 /\ job[g].inc < job[g].at
        /\ pv[g].exists /\ pv[g].sc = pv[g].ann.scName /\ pv[g].sc # NoSC
        /\ pv[g].claimRef.uid = g

\* C10 (claim deleted while the job runs): when the success of a job is
\* handled and the claim the volume names no longer exists, the volume is
\* not bound and is deleted.
C10_AbortDeletes ==
    [][\A g \in Guids : \A ok \in BOOLEAN, persist \in BOOLEAN :
          (/\ JobEventRun(g, ok, persist)
           /\ SuccessEdge(g)
           /\ pv[g].exists /\ pv[g].sc = NoSC
           /\ ~ClaimPresent(pv[g]))
            => (pv'[g].sc = NoSC /\ pv'[g].deleting)]_vars

\* the update of the job of g about to be handled shows the job as failed:
\* status.failed going from unset/0 to 1 or more, or the condition Failed
\* appearing
FailureObserved(g) ==
    \/ job[g].seen.failed = 0 /\ job[g].status.failed >= 1
    \/ job[g].seen.conds # "Failed" /\ job[g].status.conds = "Failed"

\* C11 (job failure cleanup): when an update showing the BackupJob of a guid
\* as failed is handled, by status.failed or by the condition Failed, the
\* SnapshotVolume of that guid, if there is one, is deleted.
C11_FailureDeletes ==
    [][\A g \in Guids : \A ok \in BOOLEAN, persist \in BOOLEAN :
          (JobEventRun(g, ok, persist) /\ FailureObserved(g) /\ pv[g].exists)
            => pv'[g].deleting]_vars

\* C12 (host directory lifecycle): the directory of a guid exists only while
\* its BackupJob is in flight, or its SnapshotVolume is there (bound, or
\* released and waiting for cleanup), or a cleanup job for it has yet to run.
C12_HostDirLifecycle ==
    \A g \in Guids :
        hostDir[g] => \/ job[g].exists /\ job[g].status.conds = ""
                      \/ pv[g].exists
                      \/ cleanup[g].exists /\ ~cleanup[g].done

\* C13 (claim reference of the pre-bound volume): a volume that
\* handle_pvc_create has just created names the requesting claim's
\* namespace and name in its claim reference, without UID, and carries no
\* storage class.
C13_PreBoundClaimRef ==
    [][\A g \in Guids :
          (created'[g].pv > created[g].pv)
            => /\ pv'[g].exists /\ pv'[g].sc = NoSC
               /\ pv'[g].claimRef = [namespace |-> pv'[g].ann.claimNs,
                                     name |-> pv'[g].ann.claimName,
                                     uid |-> NoUid]
               /\ pv'[g].claimRef.name # ""]_vars

\* C14 (bind under concurrent modification): when the success of a job is
\* handled, the claim exists and the replace of the volume conflicts with a
\* concurrent write, the handler does not end with the volume unbound and
\* the success recorded as handled.
C14_ConflictRetried ==
    [][\A g \in Guids :
          (/\ JobEventRun(g, FALSE, TRUE)
           /\ SuccessEdge(g)
           /\ pv[g].exists /\ pv[g].ann.scName # NoSC
           /\ ClaimPresent(pv[g]))
            => ~(job'[g].seen.succeeded = 1 /\ pv'[g].sc = NoSC)]_vars

\* C18 (cleanup is best effort): whenever the deletion of a volume is to be
\* handled, the delete handler completes, whether or not the cleanup job can
\* be created, so that the volume can go.
C18_CleanupBestEffort ==
    \A g \in Guids :
        (pv[g].exists /\ pv[g].deleting)
            => \A createOk \in BOOLEAN :
                  handle_pv_delete(cleanup, pv[g], createOk).res # "api_error"

\* C19 (edge-triggered job handlers): when an update of a job is handled,
\* the volume is bound only if status.succeeded goes from unset/0 to 1 and
\* marked for deletion only if status.failed goes from unset/0 to 1; called
\* with a non-zero old value, handle_job_succeeded and the status.failed
\* handler leave every volume as it is; while every handled update is
\* recorded, the status.failed handler meets its edge at most once per job.
C19_EdgeTriggered ==
    [][\A g \in Guids : \A ok \in BOOLEAN, persist \in BOOLEAN :
          JobEventRun(g, ok, persist)
            => /\ (pv'[g].sc # pv[g].sc \/ pv'[g].claimRef # pv[g].claimRef)
                     => SuccessEdge(g)
               /\ (pv'[g].deleting /\ ~pv[g].deleting)
                     => (job[g].seen.failed = 0 /\ job[g].status.failed = 1)
               /\ restarts' = 0 => job'[g].fired <= 1
               /\ \A old \in 1..MaxPodFailures, new \in 0..MaxPodFailures :
                     /\ handle_job_succeeded(pv, JobName(g), old, new, TRUE).pvs = pv
                     /\ handle_job_failed(pv, JobName(g), old, new) = pv]_vars

\* C19: with every handled update recorded, the status.failed handler met
\* its edge once and deleted the volume, and a later update with a non-zero
\* old value was handled
C19_Witness ==
    \E g \in Guids :
        /\ restarts = 0 /\ job[g].fired = 1
        /\ job[g].seen.failed = MaxPodFailures
        /\ created[g].pv = 1 /\ ~pv[g].exists

\* C20 (missing annotations on deletion): a step that creates a cleanup job
\* creates it for a volume carrying the backup label and the node
\* annotation, and pinned to that node.
C20_NoUnpinnedCleanup ==
    [][\A g \in Guids :
          (~cleanup[g].exists /\ cleanup'[g].exists)
            => /\ pv[g].ann.label = g /\ pv[g].ann.node # NoNode
               /\ cleanup'[g].node # NoNode]_vars

\* the handler gets as far as the search for the source claim: the claim
\* names a readable storage class of this provisioner and a data source of
\* kind PersistentVolumeClaim
ReachesSource(in) ==
    /\ in.scName # NoSC /\ in.scReadable /\ in.provisioner = PROVISIONER
    /\ in.dsKind = "PersistentVolumeClaim"

\* the source claim exists where the handler looks for it
SourceFound(k, in) ==
    IF in.dsNs # NoNs THEN in.dsNs \in in.holders
    ELSE k[1] \in in.holders \/ \E i \in 1..Len(in.path) : in.path[i] \in in.holders

\* the run created no volume and no job
NothingCreated == pv' = pv /\ job' = job /\ created' = created

\* C15 (source not yet bound): when the source claim is found and its phase
\* is not Bound, handle_pvc_create ends with a transient failure asking for
\* a requeue after 30 seconds, and has created no volume and no job.
C15_SourceNotBound ==
    [][\A k \in ClaimKeys :
          (/\ HandleRequest(k)
           /\ ReachesSource(request.in) /\ SourceFound(k, request.in)
           /\ request.in.phase # "Bound")
            => /\ request'.out = "temporary" /\ request'.delay = 30
               /\ ~claim'[k].done
               /\ NothingCreated]_vars

\* C15: a run ended with a transient failure on a source claim that is
\* Pending, with every later read ready to succeed, and nothing exists
C15_Witness ==
    /\ request.out = "temporary" /\ request.delay = 30
    /\ request.in.phase = "Pending" /\ request.in.clusterOk /\ request.in.secretsOk
    /\ request.in.pods # <<>> /\ request.in.owners = <<OwnerCapi, OwnerCnpg("db-1")>>
    /\ \A g \in Guids : ~pv[g].exists /\ ~job[g].exists

\* the owners of kind Cluster and api group postgresql.cnpg.io/v1
ClusterOwners(in) ==
    {i \in 1..Len(in.owners) :
        in.owners[i].kind = "Cluster" /\ in.owners[i].api = CNPG_API}

\* C16 (owner check): when the source claim is found and Bound and does not
\* have exactly one owner of kind Cluster with api group
\* postgresql.cnpg.io/v1, handle_pvc_create fails permanently and creates
\* no volume and no job.
C16_ExactlyOneOwner ==
    [][\A k \in ClaimKeys :
          (/\ HandleRequest(k)
           /\ ReachesSource(request.in) /\ SourceFound(k, request.in)
           /\ request.in.phase = "Bound"
           /\ Cardinality(ClusterOwners(request.in)) # 1)
            => /\ request'.out = "permanent"
               /\ NothingCreated]_vars

\* C17 (namespace resolution): a data source naming a namespace is looked
\* for in that namespace only; otherwise the claim's own namespace comes
\* first and then the NAMESPACE_PATH entries in their order, and the first
\* one holding the source claim is the source namespace of the volume and
\* the job; when the source claim is in none of them the run fails
\* permanently and creates nothing.
C17_NamespaceResolution ==
    [][\A k \in ClaimKeys :
          (HandleRequest(k) /\ ReachesSource(request.in))
            => LET in == request.in
                   g == claim[k].uid
               IN  /\ ~SourceFound(k, in)
                        => (request'.out = "permanent" /\ NothingCreated)
                   /\ request'.out \in {"ok", "job_error"}
                        => /\ pv'[g].exists
                           /\ in.dsNs # NoNs => pv'[g].ann.srcNs = in.dsNs
                           /\ (in.dsNs = NoNs /\ k[1] \in in.holders)
                                 => pv'[g].ann.srcNs = k[1]
                           /\ (in.dsNs = NoNs /\ k[1] \notin in.holders)
                                 => \E i \in 1..Len(in.path) :
                                       /\ pv'[g].ann.srcNs = in.path[i]
                                       /\ in.path[i] \in in.holders
                                       /\ \A j \in 1..(i - 1) :
                                             in.path[j] \notin in.holders
                   /\ request'.out = "ok" => job'[g].ns = pv'[g].ann.srcNs]_vars

\* C17: with no namespace in the data source, the source claim held by two
\* entries of the path and not by the claim's own namespace, the volume and
\* the job name the first of the two
C17_Witness ==
    /\ request.out = "ok" /\ request.in.dsNs = NoNs
    /\ request.in.holders = {"shared", "other"}
    /\ request.in.path = <<"shared", "", "other">>
    /\ \E g \in Guids : /\ pv[g].exists /\ pv[g].ann.srcNs = "shared"
                        /\ job[g].exists /\ job[g].ns = "shared"

\* the claim k with UID g has its volume published and its BackupJob was
\* never created: handle_pvc_create stopped between lines 234 and 351
PartialPublish(k, g) ==
    /\ claim[k].exists /\ claim[k].uid = g /\ ~claim[k].done
    /\ pv[g].exists /\ ~pv[g].deleting
    /\ pv[g].ann.claimNs = k[1] /\ pv[g].ann.claimName = k[2]
    /\ created[g].job = 0

\* C21 (recovery from a partial publish): when handle_pvc_create stopped
\* after creating the volume and before creating the BackupJob, the
\* handler's later runs for the same claim eventually create the BackupJob
\* (unless meanwhile the claim is deleted, the volume's deletion is asked
\* for, or a later run ends for good because the source has changed).
C21_PartialPublishRecovers ==
    \A k \in ClaimKeys : \A g \in UidPool :
        PartialPublish(k, g)
            ~> \/ job[g].exists
               \/ ~claim[k].exists \/ claim[k].done
               \/ ~pv[g].exists \/ pv[g].deleting

\* C22 (TLS temp files): when get_db_connection has returned or raised, no
\* temporary certificate or key file it made is left on disk, whether the
\* connection succeeded, failed, or the writing of one of the three files
\* failed.
C22_NoTempFilesRemain ==
    tls.pc = "done" => tls.disk = {}

\* the volume p is in bound form: it has its storage class and a claim
\* reference
InBoundForm(p) == p.exists /\ p.sc # NoSC /\ p.claimRef # NoRef

\* C23 (a bound volume survives the failure handlers): when an update of a
\* BackupJob that has succeeded is handled, whatever else the update
\* carries, a volume of that job that is in bound form, or is put into
\* bound form by this update, is not marked for deletion by it.
C23_BoundNotDeleted ==
    [][\A g \in Guids : \A ok \in BOOLEAN, persist \in BOOLEAN :
          (/\ JobEventRun(g, ok, persist)
           /\ job[g].status.succeeded = 1
           /\ InBoundForm(pv'[g])
           /\ ~pv[g].deleting)
            => ~pv'[g].deleting]_vars

\* the BackupJob of g is neither complete nor failed: the job controller
\* can still start a pod for it
BackupCanRun(g) == job[g].exists /\ job[g].status.conds = ""

\* C24 (no race of cleanup and backup on the host directory): a cleanup job
\* for a guid is created only when the BackupJob of that guid can no longer
\* run a pod, and no pod of the BackupJob ends its run once the cleanup job
\* of its guid exists.
C24_NoCleanupBackupRace ==
    [][\A g \in Guids :
          /\ (cleanup'[g].exists /\ ~cleanup[g].exists) => ~BackupCanRun(g)
          /\ (PodFails(g) \/ JobCompletes(g)) => ~cleanup[g].exists]_vars

\* C25 (cleanup jobs do not feed back into provisioning): when an update of
\* the status of a cleanup job (succeeded, failed or conditions) is handled,
\* no volume is replaced or marked for deletion: the volume names the job
\* handlers derive from pg-reflinker-cleanup-{guid} name no volume.
C25_CleanupJobsInert ==
    [][\A g \in Guids : \A ok \in BOOLEAN, persist \in BOOLEAN :
          CleanupJobEventRun(g, ok, persist)
            => /\ pv' = pv
               /\ PvNamed(pv, PvName(StripJobPrefix(CleanupJobName(g)))) = {}
               /\ PvNamed(pv, PvName(LastSegment(CleanupJobName(g)))) = {}]_vars

\* C25: the success, and the failure, of a cleanup job was handled while
\* the volume published for its guid, created once and not yet gone, and
\* the claim of that volume existed
C25_Witness ==
    \E g \in UidPool :
        /\ created[g].pv = 1 /\ pv[g].exists /\ pv[g].sc = NoSC
        /\ ClaimPresent(pv[g])
        /\ cleanup[g].exists /\ cleanup[g].seen = cleanup[g].status
        /\ cleanup[g].seen.succeeded = 1 /\ cleanup[g].seen.failed = 1

====
